---- MODULE Spec2Model ----
(***************************************************************************)
(* State-machine model of the F1-AI backend:                               *)
(*   - the agentic chat loop  (backend/app/api/routes.py, chat_endpoint)   *)
(*   - the race-detail cache  (routes.py get_race_detail,                  *)
(*     _build_race_detail_sync, main.py _prefetch_race_details)            *)
(***************************************************************************)
EXTENDS Integers, Sequences, FiniteSets, TLC

VARIABLES
    \* ---- chat_endpoint.generate ----
    pc,                 \* position of the generator
    turn_count,         \* routes.py:155
    current_response,   \* routes.py:158/209  [tool_calls, content]
    idx,                \* index of the for-loop over tool_calls (routes.py:171)
    langchain_messages, \* routes.py:136, the conversation state
    stream,             \* chunks yielded to the StreamingResponse so far
    invocations,        \* number of llm_with_tools.ainvoke calls made
    modelRaised,        \* TRUE once an ainvoke call raised
    execLog,            \* call-ids in the order their handlers were started
    nextId,             \* next fresh tool-call id handed out by the model
    extraCalls,         \* tool calls requested beyond the first of a response
    \* ---- race detail cache, loader threads, prefetch task ----
    race_detail_cache,  \* routes.py:411, key -> payload (NoEntry when absent)
    fastf1_lock,        \* routes.py:415, 0 when free, else the holding job
    jobs,               \* worker threads running _build_race_detail_sync
    now,                \* the clock: number of rounds whose race + 3h is past
    req,                \* per client: its get_race_detail call, in progress
                        \* or returned
    ops,                \* get_race_detail calls and prefetch loads started
    prefetch,           \* state of the _prefetch_race_details task
    \* ---- live timing websocket ----
    live_connections,   \* routes.py:690, room -> list of websockets
    sockets,            \* per websocket: position of its live_timing handler
    \* ---- capability handlers on worker threads ----
    workers,            \* threads running a handler that loads a session
    predictions_lock    \* predictions.py:47, "free" or the holding thread

chatVars == <<pc, turn_count, current_response, idx, langchain_messages,
              stream, invocations, modelRaised, execLog, nextId, extraCalls>>

cacheVars == <<race_detail_cache, fastf1_lock, jobs, now, req, ops, prefetch>>

liveVars == <<live_connections, sockets>>

workerVars == <<workers, predictions_lock>>

sideVars == <<liveVars, workerVars>>

vars == <<chatVars, cacheVars, sideVars>>

----------------------------------------------------------------------------
\* Bounds of the model (environment, not program constants)

\* most tool calls the model puts in one response
MaxCalls == 2

\* most tool calls, over one chat request, that are not the first call of
\* their response
MaxExtraCalls == 1

\* most get_race_detail calls and prefetch loads started in one run
MaxOps == 2

\* config.py:44 reads MAX_AGENT_TURNS from the environment (default 5); the
\* model runs the loop with a smaller configured value
MAX_AGENT_TURNS == 3

----------------------------------------------------------------------------
\* Program constants

TOOL_TIMEOUT_SECONDS == 30

----------------------------------------------------------------------------
\* Tool names are character sequences, so that the "friendly" conversion of
\* routes.py:179 is computed and not assumed.

get_race_results ==
    <<"g","e","t","_","r","a","c","e","_","r","e","s","u","l","t","s">>

compare_drivers ==
    <<"c","o","m","p","a","r","e","_","d","r","i","v","e","r","s">>

\* a name the model may hallucinate; it is not a key of TOOL_MAP
get_lap_times ==
    <<"g","e","t","_","l","a","p","_","t","i","m","e","s">>

TOOL_MAP == {get_race_results, compare_drivers}

\* names the model may put in a tool call
ModelNames == {get_race_results, get_lap_times}

Lower == <<"a","b","c","d","e","f","g","h","i","j","k","l","m",
           "n","o","p","q","r","s","t","u","v","w","x","y","z">>

UpperOf == <<"A","B","C","D","E","F","G","H","I","J","K","L","M",
             "N","O","P","Q","R","S","T","U","V","W","X","Y","Z">>

IsLower(c) == \E i \in 1..26 : Lower[i] = c

IsUpper(c) == \E i \in 1..26 : UpperOf[i] = c

IsCased(c) == IsLower(c) \/ IsUpper(c)

ToUpper(c) == IF IsLower(c) THEN UpperOf[CHOOSE i \in 1..26 : Lower[i] = c] ELSE c

ToLower(c) == IF IsUpper(c) THEN Lower[CHOOSE i \in 1..26 : UpperOf[i] = c] ELSE c

\* str.replace("_", " ")
ReplaceUnderscore(s) == [i \in 1..Len(s) |-> IF s[i] = "_" THEN " " ELSE s[i]]

\* str.title(): a cased character is upper-cased when it follows an uncased
\* character (or starts the string) and lower-cased otherwise
Title(s) ==
    [i \in 1..Len(s) |->
        IF i = 1 \/ ~IsCased(s[i-1]) THEN ToUpper(s[i]) ELSE ToLower(s[i])]

\* routes.py:179  friendly = tool_name.replace("_", " ").title()
Friendly(tool_name) == Title(ReplaceUnderscore(tool_name))

----------------------------------------------------------------------------
\* Messages and chunks

NoName == << >>

SystemMessage == [type |-> "system", tool_calls |-> << >>, tool_call_id |-> 0,
                  name |-> NoName,
                  content |-> [kind |-> "prompt", tool |-> NoName, secs |-> 0]]

HumanMessage == [type |-> "human", tool_calls |-> << >>, tool_call_id |-> 0,
                 name |-> NoName,
                 content |-> [kind |-> "question", tool |-> NoName, secs |-> 0]]

\* the AIMessage returned by the model, appended as is (routes.py:169)
IntentMessage(resp) ==
    [type |-> "ai", tool_calls |-> resp.tool_calls, tool_call_id |-> 0,
     name |-> NoName,
     content |-> [kind |-> resp.content, tool |-> NoName, secs |-> 0]]

\* a timeout text that leaves out the tool name and the timeout value
ToolResult_anonymous(outcome, tool_name) ==
    CASE outcome = "ok"      -> [kind |-> "ok", tool |-> NoName, secs |-> 0]
      [] outcome = "timeout" -> [kind |-> "timeout", tool |-> NoName, secs |-> 0]
      [] outcome = "error"   -> [kind |-> "error", tool |-> tool_name, secs |-> 0]

\* routes.py:184-196: the text that becomes the tool result
ToolResult(outcome, tool_name) ==
    CASE outcome = "ok"      -> [kind |-> "ok", tool |-> NoName, secs |-> 0]
      [] outcome = "timeout" -> [kind |-> "timeout", tool |-> tool_name,
                                 secs |-> TOOL_TIMEOUT_SECONDS]
      [] outcome = "error"   -> [kind |-> "error", tool |-> tool_name, secs |-> 0]

\* routes.py:199-203
ToolMessage(tool_id, tool_result, tool_name) ==
    [type |-> "tool", tool_calls |-> << >>, tool_call_id |-> tool_id,
     name |-> tool_name, content |-> tool_result]

Chunk(kind, name) == [kind |-> kind, name |-> name]

ToolStartChunk(tool_name) == Chunk("TOOL_START", Friendly(tool_name))

ToolEndChunk(tool_name) == Chunk("TOOL_END", Friendly(tool_name))

FinalTextChunk == Chunk("text", NoName)

\* a loop exit that streams the last response as if it were inspected
MaxStepsNotice_text == FinalTextChunk

\* routes.py:218
MaxStepsNotice == Chunk("notice", NoName)

SystemErrorChunk == Chunk("error", NoName)

Outcomes == {"ok", "timeout", "error"}

\* the responses the model can give: up to MaxCalls tool calls with fresh
\* ids, or plain text (no tool calls)
RECURSIVE NameSeqs(_)
NameSeqs(n) ==
    IF n = 0 THEN {<< >>}
    ELSE {Append(s, x) : s \in NameSeqs(n - 1), x \in ModelNames}

ToolResponse(names) ==
    [tool_calls |-> [i \in 1..Len(names) |->
                        [name |-> names[i], id |-> nextId + i - 1]],
     content |-> "intent"]

TextResponse == [tool_calls |-> << >>, content |-> "answer"]

NoResponse == [tool_calls |-> << >>, content |-> "none"]

Min(a, b) == IF a < b THEN a ELSE b

ModelResponses ==
    {TextResponse} \cup
    {ToolResponse(names) :
        names \in UNION {NameSeqs(n) :
                            n \in 1..Min(MaxCalls, 1 + MaxExtraCalls - extraCalls)}}

----------------------------------------------------------------------------
\* chat_endpoint.generate

ChatInit ==
    /\ pc = "start"
    /\ turn_count = 0
    /\ current_response = NoResponse
    /\ idx = 0
    /\ langchain_messages = <<SystemMessage, HumanMessage>>
    /\ stream = << >>
    /\ invocations = 0
    /\ modelRaised = FALSE
    /\ execLog = << >>
    /\ nextId = 1
    /\ extraCalls = 0

\* an error handler that reports the failure and lets the loop go on
RaiseToOuterGuard_continue ==
    /\ stream' = Append(stream, SystemErrorChunk)
    /\ pc' = "loop"

\* the outer except of routes.py:220-222
RaiseToOuterGuard ==
    /\ stream' = Append(stream, SystemErrorChunk)
    /\ pc' = "done"

\* one llm_with_tools.ainvoke(langchain_messages): a response or an exception
AInvoke ==
    /\ invocations' = invocations + 1
    /\ \/ \E resp \in ModelResponses :
            /\ current_response' = resp
            /\ nextId' = nextId + Len(resp.tool_calls)
            /\ extraCalls' = IF resp.tool_calls = << >> THEN extraCalls
                              ELSE extraCalls + Len(resp.tool_calls) - 1
            /\ pc' = "loop"
            /\ UNCHANGED <<stream, modelRaised>>
       \/ /\ modelRaised' = TRUE
          /\ RaiseToOuterGuard
          /\ UNCHANGED <<current_response, nextId, extraCalls>>

\* routes.py:154-158
InvokeFirst ==
    /\ pc = "start"
    /\ AInvoke
    /\ UNCHANGED <<turn_count, idx, langchain_messages, execLog>>
    /\ UNCHANGED <<cacheVars, sideVars>>

\* a loop test that is off by one
LoopGuard_inclusive == turn_count <= MAX_AGENT_TURNS

\* a loop test that stops one turn early
LoopGuard_early == turn_count < MAX_AGENT_TURNS - 1

\* the loop test of routes.py:160
LoopGuard == turn_count < MAX_AGENT_TURNS

\* routes.py:160-169 and 211-218: one evaluation of the while condition and
\* the branch on current_response.tool_calls
LoopTurn ==
    /\ pc = "loop"
    /\ IF LoopGuard
       THEN /\ turn_count' = turn_count + 1
            /\ IF current_response.tool_calls # << >>
               THEN /\ langchain_messages' =
                          Append(langchain_messages, IntentMessage(current_response))
                    /\ idx' = 1
                    /\ pc' = "tools"
                    /\ UNCHANGED stream
               ELSE /\ stream' = Append(stream, FinalTextChunk)
                    /\ pc' = "done"
                    /\ UNCHANGED <<langchain_messages, idx>>
       ELSE /\ stream' = Append(stream, MaxStepsNotice)
            /\ pc' = "done"
            /\ UNCHANGED <<turn_count, langchain_messages, idx>>
    /\ UNCHANGED <<current_response, invocations, modelRaised, execLog, nextId,
                   extraCalls>>
    /\ UNCHANGED <<cacheVars, sideVars>>

\* a registry lookup that misses a registered tool
Resolved_missing(tool_name) == tool_name = compare_drivers

\* a lookup that finds a handler for every name
Resolved_any(tool_name) == TRUE

\* routes.py:176
Resolved(tool_name) == tool_name \in TOOL_MAP

\* routes.py:171-180: next element of the for-loop; a resolved call yields
\* its start marker and begins executing, an unresolved one is passed over
ToolCallStart ==
    /\ pc = "tools"
    /\ idx <= Len(current_response.tool_calls)
    /\ LET tool_call == current_response.tool_calls[idx] IN
         IF Resolved(tool_call.name)
         THEN /\ stream' = Append(stream, ToolStartChunk(tool_call.name))
              /\ execLog' = Append(execLog, tool_call.id)
              /\ pc' = "exec"
              /\ UNCHANGED idx
         ELSE /\ idx' = idx + 1
              /\ UNCHANGED <<stream, execLog, pc>>
    /\ UNCHANGED <<turn_count, current_response, langchain_messages,
                   invocations, modelRaised, nextId, extraCalls>>
    /\ UNCHANGED <<cacheVars, sideVars>>

\* an end marker that carries the raw tool name
EndMarker_raw(tool_name) == Chunk("TOOL_END", tool_name)

\* routes.py:206
EndMarker(tool_name) == ToolEndChunk(tool_name)

\* a result put right after the system prompt instead of at the end
AppendResult_front(msgs, m) == <<Head(msgs), m>> \o Tail(msgs)

\* routes.py:198  langchain_messages.append(ToolMessage(...))
AppendResult(msgs, m) == Append(msgs, m)

\* routes.py:183-206: the handler returns, raises or times out; the result
\* message is appended and the end marker yielded
ToolCallFinish ==
    /\ pc = "exec"
    /\ LET tool_call == current_response.tool_calls[idx] IN
         \E outcome \in Outcomes :
            /\ langchain_messages' =
                  AppendResult(langchain_messages,
                         ToolMessage(tool_call.id,
                                     ToolResult(outcome, tool_call.name),
                                     tool_call.name))
            /\ stream' = Append(stream, EndMarker(tool_call.name))
    /\ idx' = idx + 1
    /\ pc' = "tools"
    /\ UNCHANGED <<turn_count, current_response, invocations, modelRaised,
                   execLog, nextId, extraCalls>>
    /\ UNCHANGED <<cacheVars, sideVars>>

\* routes.py:208-209: the for-loop is exhausted, ask the model again
InvokeNext ==
    /\ pc = "tools"
    /\ idx > Len(current_response.tool_calls)
    /\ AInvoke
    /\ UNCHANGED <<turn_count, idx, langchain_messages, execLog>>
    /\ UNCHANGED <<cacheVars, sideVars>>

ChatNext ==
    \/ InvokeFirst
    \/ LoopTurn
    \/ ToolCallStart
    \/ ToolCallFinish
    \/ InvokeNext


----------------------------------------------------------------------------
\* Race detail cache: get_race_detail, _build_race_detail_sync and the
\* background prefetch

\* rounds of the season's schedule (fastf1.get_event_schedule)
Schedule == {1, 2, 3}

\* a round number that the schedule does not have
UnknownRound == 4

\* keys a client may ask for
RequestKeys == Schedule \cup {UnknownRound}

\* rounds whose location get_circuit_info finds in CIRCUIT_DATA
CircuitData == {1, 3}

\* rounds with a "Sprint" session (routes.py:464-465): the season closes
\* with a sprint weekend
SprintRounds == {3}

\* rounds whose race + 3h passes while CacheSpec watches the server; the
\* closing sprint weekend is still ahead throughout
Observed == Schedule \ SprintRounds

Clients == {"c1", "c2"}

NoEntry == [kind |-> "absent", round |-> 0, circuit |-> FALSE, loaded |-> {}]

\* routes.py:440
NotFoundPayload(k) ==
    [kind |-> "error", round |-> k, circuit |-> FALSE, loaded |-> {}]

\* routes.py:467-480: the payload before any session is loaded; circuit is
\* what get_circuit_info returned, loaded the sessions whose fields are set
Skeleton(k) ==
    [kind |-> "detail", round |-> k, circuit |-> (k \in CircuitData),
     loaded |-> {}]

\* routes.py:677
TimeoutObject == [kind |-> "timeout", round |-> 0, circuit |-> FALSE, loaded |-> {}]

\* routes.py:680
ErrorObject == [kind |-> "exception", round |-> 0, circuit |-> FALSE, loaded |-> {}]

\* routes.py:497-641: the session loads of one build, in order
Sessions(k) ==
    IF k \in SprintRounds THEN <<"R", "Q", "S", "SQ">> ELSE <<"R", "Q">>

\* routes.py:491-492 and main.py:76: race session + 3h lies before t.
\* Races take place in round order, so the clock counts concluded rounds.
IsCompleted(k, t) == k <= t

NoJob == 0

\* a free thread of the pool
FreeSlot == [key |-> 0, pc |-> "free", sess |-> 0, owned |-> FALSE,
             result |-> NoEntry]

\* a client that has not called yet
IdleReq == [phase |-> "idle", key |-> 0, job |-> NoJob, resp |-> NoEntry,
            loaded |-> FALSE, contended |-> FALSE, again |-> FALSE]

CacheInit ==
    /\ race_detail_cache = [k \in RequestKeys |-> NoEntry]
    /\ fastf1_lock = 0
    /\ jobs = [j \in 1..MaxOps |-> FreeSlot]
    /\ now = 0
    /\ req = [c \in Clients |-> IdleReq]
    /\ ops = 0
    /\ prefetch = [pc |-> "sweep", row |-> 0, now_utc |-> 0, job |-> NoJob]

\* the clock passes the end of the next round's buffer
TimePasses ==
    /\ now < Cardinality(Observed)
    /\ now' = now + 1
    /\ UNCHANGED <<race_detail_cache, fastf1_lock, jobs, req, ops, prefetch>>
    /\ UNCHANGED <<chatVars, sideVars>>

\* asyncio.to_thread(_build_race_detail_sync, year, round_num): the call
\* runs on a thread of the pool; owned says that a coroutine awaits it
NewJob(k) == [key |-> k, pc |-> "begin", sess |-> 0, owned |-> TRUE,
              result |-> NoEntry]

CanSpawn == ops < MaxOps

\* each execution of the loader gets the next job number
NextSlot == ops + 1

\* a timeout that cannot fire while the thread waits for the lock
InFlight_running(j) == jobs[j].pc \in {"begin", "load"}

\* the thread has been started and has not ended
InFlight(j) == jobs[j].pc \in {"begin", "wait", "load"}

\* the thread ends: its outcome waits for the awaiting coroutine, or is
\* dropped when that coroutine has timed out
Ended(job, outcome) ==
    IF job.owned THEN [job EXCEPT !.pc = outcome] ELSE FreeSlot

\* asyncio.wait_for gave up on the thread: it runs on, nobody reads its result
Abandoned(job) == [job EXCEPT !.owned = FALSE, !.result = NoEntry]

\* routes.py:437-495: schedule lookup, payload skeleton, completion test
BuildBegin(j) ==
    /\ jobs[j].pc = "begin"
    /\ LET k == jobs[j].key IN
         \/ \* fastf1.get_event_schedule raises
            jobs' = [jobs EXCEPT ![j] = Ended(@, "raised")]
         \/ /\ k \notin Schedule
            /\ jobs' = [jobs EXCEPT
                          ![j] = Ended([@ EXCEPT !.result = NotFoundPayload(k)],
                                       "returned")]
         \/ /\ k \in Schedule
            /\ jobs' = IF IsCompleted(k, now)
                       THEN [jobs EXCEPT ![j].pc = "wait", ![j].sess = 1,
                                         ![j].result = IF jobs[j].owned
                                                       THEN Skeleton(k)
                                                       ELSE NoEntry]
                       ELSE [jobs EXCEPT
                               ![j] = Ended([@ EXCEPT !.result = Skeleton(k)],
                                            "returned")]
    /\ UNCHANGED <<race_detail_cache, fastf1_lock, now, req, ops, prefetch>>
    /\ UNCHANGED <<chatVars, sideVars>>

\* a lock that lets every thread in
LockFree_always == TRUE

\* threading.Lock: acquire succeeds only while no thread holds the lock
LockFree == fastf1_lock = 0

\* "with _fastf1_lock:" entered (routes.py:499, 550, 580, 617)
SessionAcquire(j) ==
    /\ jobs[j].pc = "wait"
    /\ LockFree
    /\ fastf1_lock' = j
    /\ jobs' = [jobs EXCEPT ![j].pc = "load"]
    /\ UNCHANGED <<race_detail_cache, now, req, ops,
                   prefetch>>
    /\ UNCHANGED <<chatVars, sideVars>>

\* a failed sub-fetch that also drops what the earlier ones had set
LoadedAfter_wiped(loaded, s, ok) == IF ok THEN loaded \cup {s} ELSE {}

\* routes.py:538-546, 571-574, 610-613, 638-641: the fields of session s are
\* assigned at the end of its try block, the except branch assigns nothing
LoadedAfter(loaded, s, ok) == IF ok THEN loaded \cup {s} ELSE loaded

\* a with-block that keeps the lock when its body raises
LockAfter_leaky(holder, ok) == IF ok THEN 0 ELSE holder

\* routes.py:499, 550, 580, 617: leaving "with _fastf1_lock:" releases the
\* lock, whether the body returned or raised
LockAfter(holder, ok) == 0

\* the session load ends: the lock is released on return and on exception;
\* a load that raised, or whose rows give nothing, leaves its fields null
SessionFinish(j) ==
    /\ jobs[j].pc = "load"
    /\ LET k == jobs[j].key
           s == Sessions(k)[jobs[j].sess]
           last == jobs[j].sess = Len(Sessions(k)) IN
         \E ok \in BOOLEAN :
            LET done == [jobs[j] EXCEPT
                           !.result.loaded = IF jobs[j].owned
                                             THEN LoadedAfter(@, s, ok)
                                             ELSE @] IN
              /\ fastf1_lock' = LockAfter(j, ok)
              /\ jobs' = [jobs EXCEPT
                            ![j] = IF last THEN Ended(done, "returned")
                                   ELSE [done EXCEPT !.sess = @ + 1,
                                                     !.pc = "wait"]]
    /\ UNCHANGED <<race_detail_cache, now, req, ops,
                   prefetch>>
    /\ UNCHANGED <<chatVars, sideVars>>

\* a test that lets every payload into the cache
CacheWorthy_always(detail) == TRUE

\* routes.py:672 and main.py:88: detail.get("circuit") is not None
CacheWorthy(detail) == detail.circuit

\* a store that loses the payload
Store_lost(cache, k, detail) == cache

\* routes.py:673 and main.py:89
Store(cache, k, detail) == [cache EXCEPT ![k] = detail]

\* a cache test that never finds the key
IsCached_never(k) == FALSE

\* routes.py:663 and main.py:64: cache_key in race_detail_cache
IsCached(k) == race_detail_cache[k] # NoEntry

\* another awaited load of key k is under way besides job j
Contended(k, j) ==
    \E i \in 1..MaxOps : i # j /\ jobs[i].key = k /\ jobs[i].owned

\* the call of client c returned resp: the record keeps the response, whether
\* the call ran the loader, whether another awaited load of the key was under
\* way then, and whether the client's previous call was a load of the same key
Returned(c, k, resp, ran, j) ==
    [phase |-> "done", key |-> k, job |-> NoJob, resp |-> resp, loaded |-> ran,
     contended |-> Contended(k, j),
     again |-> IF ran THEN req[c].again
               ELSE req[c].phase = "done" /\ req[c].key = k /\ req[c].loaded]

\* routes.py:661-670: the cache test and, on a miss, the start of the load;
\* there is no suspension point between the two
Request(c, k) ==
    /\ req[c].phase \in {"idle", "done"}
    /\ ops < MaxOps
    /\ ops' = ops + 1
    /\ IF IsCached(k)
       THEN /\ req' = [req EXCEPT
                         ![c] = Returned(c, k, race_detail_cache[k], FALSE, NoJob)]
            /\ UNCHANGED jobs
       ELSE /\ jobs' = [jobs EXCEPT ![NextSlot] = NewJob(k)]
            /\ req' = [req EXCEPT
                         ![c] = [phase |-> "await", key |-> k, job |-> NextSlot,
                                 resp |-> NoEntry, loaded |-> TRUE,
                                 contended |-> FALSE,
                                 again |-> req[c].phase = "done"
                                           /\ req[c].key = k]]
    /\ UNCHANGED <<race_detail_cache, fastf1_lock, now, prefetch>>
    /\ UNCHANGED <<chatVars, sideVars>>

\* routes.py:671-674: the thread returned within the timeout
RequestReturn(c) ==
    /\ req[c].phase = "await"
    /\ jobs[req[c].job].pc = "returned"
    /\ LET k == req[c].key
           detail == jobs[req[c].job].result IN
         /\ race_detail_cache' = IF CacheWorthy(detail)
                                 THEN Store(race_detail_cache, k, detail)
                                 ELSE race_detail_cache
         /\ req' = [req EXCEPT ![c] = Returned(c, k, detail, TRUE, req[c].job)]
    /\ jobs' = [jobs EXCEPT ![req[c].job] = FreeSlot]
    /\ UNCHANGED <<fastf1_lock, now, ops, prefetch>>
    /\ UNCHANGED <<chatVars, sideVars>>

\* routes.py:675-677: the timeout fires first; the thread is not stopped
RequestTimeout(c) ==
    /\ req[c].phase = "await"
    /\ InFlight(req[c].job)
    /\ req' = [req EXCEPT
                 ![c] = Returned(c, req[c].key, TimeoutObject, TRUE, req[c].job)]
    /\ jobs' = [jobs EXCEPT ![req[c].job] = Abandoned(@)]
    /\ UNCHANGED <<race_detail_cache, fastf1_lock, now, ops, prefetch>>
    /\ UNCHANGED <<chatVars, sideVars>>

\* routes.py:678-680: the thread raised
RequestError(c) ==
    /\ req[c].phase = "await"
    /\ jobs[req[c].job].pc = "raised"
    /\ req' = [req EXCEPT
                 ![c] = Returned(c, req[c].key, ErrorObject, TRUE, req[c].job)]
    /\ jobs' = [jobs EXCEPT ![req[c].job] = FreeSlot]
    /\ UNCHANGED <<race_detail_cache, fastf1_lock, now, ops, prefetch>>
    /\ UNCHANGED <<chatVars, sideVars>>

\* main.py:76: the round has no race date or is not completed at now_utc
PrefetchSkips(k, t) == ~IsCompleted(k, t)

\* main.py:59-77: the rounds from row on that the sweep does not pass over,
\* being neither cached nor unfinished at the sweep's now_utc
Eligible_all(row, t) ==
    {k \in Schedule : k >= row /\ ~PrefetchSkips(k, t)}

\* main.py:59-77: the rounds from row on that are not cached and whose race
\* + 3h has passed at t
Eligible(row, t) ==
    {k \in Schedule : k >= row /\ ~IsCached(k) /\ ~PrefetchSkips(k, t)}

\* main.py:59-87: the for-loop runs on from row without a suspension point
\* until it starts a load or runs out of rounds
PrefetchScan(row, t) ==
    IF Eligible(row, t) = {}
    THEN /\ prefetch' = [pc |-> "sweep", row |-> 0, now_utc |-> 0, job |-> NoJob]
         /\ UNCHANGED <<jobs, ops>>
    ELSE LET k == CHOOSE x \in Eligible(row, t) :
                      \A y \in Eligible(row, t) : x <= y IN
           /\ CanSpawn
           /\ jobs' = [jobs EXCEPT ![NextSlot] = NewJob(k)]
           /\ ops' = ops + 1
           /\ prefetch' = [pc |-> "await", row |-> k, now_utc |-> t,
                           job |-> NextSlot]

\* main.py:49-57 and 99-103: after the startup delay or the sweep interval
\* the schedule is fetched and now_utc read, then the rounds are gone through;
\* an exception of the schedule fetch ends the sweep
PrefetchSweep ==
    /\ prefetch.pc = "sweep"
    /\ \/ PrefetchScan(1, now)
       \/ UNCHANGED <<prefetch, jobs, ops>>
    /\ UNCHANGED <<race_detail_cache, fastf1_lock, now, req>>
    /\ UNCHANGED <<chatVars, sideVars>>

\* main.py:88-97: the thread returned within the timeout
PrefetchReturn ==
    /\ prefetch.pc = "await"
    /\ jobs[prefetch.job].pc = "returned"
    /\ LET k == prefetch.row
           detail == jobs[prefetch.job].result IN
         race_detail_cache' = IF CacheWorthy(detail)
                              THEN Store(race_detail_cache, k, detail)
                              ELSE race_detail_cache
    /\ jobs' = [jobs EXCEPT ![prefetch.job] = FreeSlot]
    /\ prefetch' = [prefetch EXCEPT !.pc = "pause", !.job = NoJob]
    /\ UNCHANGED <<fastf1_lock, now, req, ops>>
    /\ UNCHANGED <<chatVars, sideVars>>

\* a timeout that is caught by the outer handler and ends the sweep
PrefetchTimeout_stops ==
    /\ prefetch.pc = "await"
    /\ InFlight(prefetch.job)
    /\ jobs' = [jobs EXCEPT ![prefetch.job] = Abandoned(@)]
    /\ prefetch' = [pc |-> "sweep", row |-> 0, now_utc |-> 0, job |-> NoJob]
    /\ UNCHANGED <<race_detail_cache, fastf1_lock, now, req, ops>>
    /\ UNCHANGED <<chatVars, sideVars>>

\* main.py:91-92: the load timed out; the thread is not stopped
PrefetchTimeout ==
    /\ prefetch.pc = "await"
    /\ InFlight(prefetch.job)
    /\ jobs' = [jobs EXCEPT ![prefetch.job] = Abandoned(@)]
    /\ prefetch' = [prefetch EXCEPT !.pc = "pause", !.job = NoJob]
    /\ UNCHANGED <<race_detail_cache, fastf1_lock, now, req, ops>>
    /\ UNCHANGED <<chatVars, sideVars>>

\* a load error that ends the scheduler task
PrefetchError_fatal ==
    /\ prefetch.pc = "await"
    /\ jobs[prefetch.job].pc = "raised"
    /\ jobs' = [jobs EXCEPT ![prefetch.job] = FreeSlot]
    /\ prefetch' = [prefetch EXCEPT !.pc = "stopped", !.job = NoJob]
    /\ UNCHANGED <<race_detail_cache, fastf1_lock, now, req, ops>>
    /\ UNCHANGED <<chatVars, sideVars>>

\* main.py:93-94: the load raised
PrefetchError ==
    /\ prefetch.pc = "await"
    /\ jobs[prefetch.job].pc = "raised"
    /\ jobs' = [jobs EXCEPT ![prefetch.job] = FreeSlot]
    /\ prefetch' = [prefetch EXCEPT !.pc = "pause", !.job = NoJob]
    /\ UNCHANGED <<race_detail_cache, fastf1_lock, now, req, ops>>
    /\ UNCHANGED <<chatVars, sideVars>>

\* main.py:96-97 and 59-87: after the inter-race pause the for-loop goes on
\* with the rounds after the one just tried
PrefetchResume ==
    /\ prefetch.pc = "pause"
    /\ PrefetchScan(prefetch.row + 1, prefetch.now_utc)
    /\ UNCHANGED <<race_detail_cache, fastf1_lock, now, req>>
    /\ UNCHANGED <<chatVars, sideVars>>

CacheNext ==
    \/ TimePasses
    \/ \E j \in 1..MaxOps : BuildBegin(j)
    \/ \E j \in 1..MaxOps : SessionAcquire(j)
    \/ \E j \in 1..MaxOps : SessionFinish(j)
    \/ \E c \in Clients, k \in RequestKeys : Request(c, k)
    \/ \E c \in Clients : RequestReturn(c)
    \/ \E c \in Clients : RequestTimeout(c)
    \/ \E c \in Clients : RequestError(c)
    \/ PrefetchSweep
    \/ PrefetchReturn
    \/ PrefetchTimeout
    \/ PrefetchError
    \/ PrefetchResume

----------------------------------------------------------------------------
\* Live timing: the websocket endpoint live_timing and its room registry

\* websocket objects that connect to /live/{year}/{round_num}
Sockets == {"w1", "w2", "w3"}

\* room keys f"{year}-{round_num}" (routes.py:891)
Rooms == {"2025-1", "2025-2"}

NoRoom == "none"

\* a key that _live_connections does not have
NoList == [present |-> FALSE, members |-> << >>]

\* a websocket whose handler has not started: cycle tells how the last poll
\* of the loop ended, ended why the handler was left
NewSocket == [pc |-> "new", room |-> NoRoom, session_key |-> FALSE,
              cycle |-> "none", ended |-> "no"]

LiveInit ==
    /\ live_connections = [r \in Rooms |-> NoList]
    /\ sockets = [w \in Sockets |-> NewSocket]

\* a removal that empties the room
Without_all(members, w) == << >>

\* routes.py:921-923: the list without this websocket
Without(members, w) == SelectSeq(members, LAMBDA x : x # w)

\* routes.py:919-923: the finally block
Deregister(conns, r, w) ==
    IF r # NoRoom /\ conns[r].present
    THEN [conns EXCEPT ![r].members = Without(@, w)]
    ELSE conns

\* routes.py:917-923: an exception ends the handler through the finally block
Leave(w, why) ==
    /\ live_connections' = Deregister(live_connections, sockets[w].room, w)
    /\ sockets' = [sockets EXCEPT ![w].pc = "exited", ![w].ended = why]

\* routes.py:889-894: accept, then the registration under the room; an
\* accept that raises ends the handler before the try block
Connect(w, r) ==
    /\ sockets[w].pc = "new"
    /\ \/ /\ sockets' = [sockets EXCEPT ![w].pc = "exited",
                                         ![w].ended = "accept"]
          /\ UNCHANGED live_connections
       \/ /\ live_connections' =
                [live_connections EXCEPT
                    ![r] = [present |-> TRUE, members |-> Append(@.members, w)]]
          /\ sockets' = [sockets EXCEPT ![w].pc = "find", ![w].room = r]
    /\ UNCHANGED <<chatVars, cacheVars, workerVars>>

\* routes.py:897 and 733-750: a session key or None, exceptions are caught
FindSession(w) ==
    /\ sockets[w].pc = "find"
    /\ \E key \in BOOLEAN :
          sockets' = [sockets EXCEPT ![w].pc = "poll", ![w].session_key = key]
    /\ UNCHANGED <<live_connections, chatVars, cacheVars, workerVars>>

\* a poll that lets an upstream exception through
PollOutcomes_raising == {"positions", "none", "raised"}

\* routes.py:693-730: _poll_openf1_positions returns the positions, or None
\* on a non-200 status, on empty data and on any exception (line 728)
PollOutcomes == {"positions", "none"}

\* routes.py:900-906: one poll of the loop and the push of its positions
Poll(w) ==
    /\ sockets[w].pc = "poll"
    /\ IF ~sockets[w].session_key
       THEN /\ sockets' = [sockets EXCEPT ![w].pc = "sleep",
                                           ![w].cycle = "none"]
            /\ UNCHANGED live_connections
       ELSE \E outcome \in PollOutcomes :
              \/ /\ outcome = "raised"
                 /\ Leave(w, "poll")
              \/ /\ outcome = "none"
                 /\ sockets' = [sockets EXCEPT ![w].pc = "sleep",
                                               ![w].cycle = "skipped"]
                 /\ UNCHANGED live_connections
              \/ /\ outcome = "positions"
                 /\ \/ /\ sockets' = [sockets EXCEPT ![w].pc = "sleep",
                                                     ![w].cycle = "pushed"]
                       /\ UNCHANGED live_connections
                    \/ \* send_json raises: the client is gone
                       Leave(w, "send")
    /\ UNCHANGED <<chatVars, cacheVars, workerVars>>

\* routes.py:909
Sleep(w) ==
    /\ sockets[w].pc = "sleep"
    /\ sockets' = [sockets EXCEPT ![w].pc = "receive"]
    /\ UNCHANGED <<live_connections, chatVars, cacheVars, workerVars>>

\* routes.py:911-918: a text arrives or the receive times out, and the loop
\* goes on; a disconnect raises
Receive(w) ==
    /\ sockets[w].pc = "receive"
    /\ \/ /\ sockets' = [sockets EXCEPT ![w].pc = "poll"]
          /\ UNCHANGED live_connections
       \/ Leave(w, "receive")
    /\ UNCHANGED <<chatVars, cacheVars, workerVars>>

LiveNext ==
    \/ \E w \in Sockets, r \in Rooms : Connect(w, r)
    \/ \E w \in Sockets : FindSession(w)
    \/ \E w \in Sockets : Poll(w)
    \/ \E w \in Sockets : Sleep(w)
    \/ \E w \in Sockets : Receive(w)

----------------------------------------------------------------------------
\* Capability handlers that load FastF1 sessions on worker threads
\* (routes.py:183-187 runs TOOL_MAP[tool_name].invoke through to_thread)

Handlers == {"h1", "h2"}

\* handlers with a session load: get_race_results loads without a lock
\* (tools.py:363-365), predict_race_results goes through the loaders of
\* predictions.py, which take that module's own lock (predictions.py:91-93)
LoadingTools == {"get_race_results", "predict_race_results"}

IdleHandler == [pc |-> "idle", tool |-> "none"]

WorkersInit ==
    /\ workers = [h \in Handlers |-> IdleHandler]
    /\ predictions_lock = "free"

\* the thread starts to run the handler and comes to its session load
HandlerStart(h, tool) ==
    /\ workers[h].pc = "idle"
    /\ workers' = [workers EXCEPT
                     ![h] = [pc |-> IF tool = "predict_race_results"
                                    THEN "wait" ELSE "load",
                             tool |-> tool]]
    /\ UNCHANGED <<predictions_lock, chatVars, cacheVars, liveVars>>

\* predictions.py:91 "with _fastf1_lock:" entered
PredictAcquire(h) ==
    /\ workers[h].pc = "wait"
    /\ predictions_lock = "free"
    /\ predictions_lock' = h
    /\ workers' = [workers EXCEPT ![h].pc = "load"]
    /\ UNCHANGED <<chatVars, cacheVars, liveVars>>

\* the session load returns or raises; the with block releases the lock
HandlerEnd(h) ==
    /\ workers[h].pc = "load"
    /\ predictions_lock' = IF workers[h].tool = "predict_race_results"
                           THEN "free" ELSE predictions_lock
    /\ workers' = [workers EXCEPT ![h] = IdleHandler]
    /\ UNCHANGED <<chatVars, cacheVars, liveVars>>

----------------------------------------------------------------------------
\* Specifications

\* nothing outside the chat request has started
SideInit == LiveInit /\ WorkersInit

\* the state after start-up: one chat request has arrived, the cache is empty
Init == ChatInit /\ CacheInit /\ SideInit

\* the race detail endpoint and the prefetch task, no chat request running
CacheSpec == Init /\ [][CacheNext]_vars

\* one chat request, no race detail traffic
ChatSpec == Init /\ [][ChatNext]_vars

\* the payload of a build of round k all of whose session fetches succeeded
FullPayload(k) ==
    [Skeleton(k) EXCEPT !.loaded = {Sessions(k)[i] : i \in 1..Len(Sessions(k))}]

\* the server after the last race + 3h: every round of the schedule, the
\* sprint weekend included, is completed; the cache is still empty or an
\* earlier load has stored the opening round
SeasonEndInit ==
    /\ ChatInit
    /\ SideInit
    /\ \E first \in {NoEntry, FullPayload(1)} :
          race_detail_cache = [k \in RequestKeys |->
                                  IF k = 1 THEN first ELSE NoEntry]
    /\ fastf1_lock = 0
    /\ jobs = [j \in 1..MaxOps |-> FreeSlot]
    /\ now = Cardinality(Schedule)
    /\ req = [c \in Clients |-> IdleReq]
    /\ ops = 0
    /\ prefetch = [pc |-> "sweep", row |-> 0, now_utc |-> 0, job |-> NoJob]

\* the user whose requests SeasonEndSpec follows
Visitor == "c1"

\* get_race_detail calls of one user and the loader threads they start
SeasonEndNext ==
    \/ \E j \in 1..MaxOps : BuildBegin(j)
    \/ \E j \in 1..MaxOps : SessionAcquire(j)
    \/ \E j \in 1..MaxOps : SessionFinish(j)
    \/ \E k \in RequestKeys : Request(Visitor, k)
    \/ RequestReturn(Visitor)
    \/ RequestTimeout(Visitor)
    \/ RequestError(Visitor)

SeasonEndSpec == SeasonEndInit /\ [][SeasonEndNext]_vars

\* websocket connections only
LiveSpec == Init /\ [][LiveNext]_vars

\* routes.py:183-187 and 651-680: one user's get_race_detail calls and chat
\* capability handlers, each on a thread of the same pool
FastF1Next ==
    \/ SeasonEndNext
    \/ \E h \in Handlers, tool \in LoadingTools : HandlerStart(h, tool)
    \/ \E h \in Handlers : PredictAcquire(h)
    \/ \E h \in Handlers : HandlerEnd(h)

FastF1Spec == SeasonEndInit /\ [][FastF1Next]_vars

\* main.py:106-117: the scheduler task and the threads it starts, no client
PrefetchNext ==
    \/ TimePasses
    \/ \E j \in 1..MaxOps : BuildBegin(j)
    \/ \E j \in 1..MaxOps : SessionAcquire(j)
    \/ \E j \in 1..MaxOps : SessionFinish(j)
    \/ PrefetchSweep
    \/ PrefetchReturn
    \/ PrefetchTimeout
    \/ PrefetchError
    \/ PrefetchResume

PrefetchSpec == Init /\ [][PrefetchNext]_vars

\* the event loop resumes the scheduler when what it awaits is ready
\* (wait_for ends at the latest with its timeout, the sleep with its delay),
\* and the pool's threads keep running
PrefetchFairness ==
    /\ WF_vars(PrefetchReturn)
    /\ WF_vars(PrefetchTimeout)
    /\ WF_vars(PrefetchError)
    /\ WF_vars(PrefetchResume)
    /\ \A j \in 1..MaxOps :
          /\ WF_vars(BuildBegin(j))
          /\ WF_vars(SessionAcquire(j))
          /\ WF_vars(SessionFinish(j))

PrefetchFairSpec == Init /\ [][PrefetchNext]_vars /\ PrefetchFairness

----------------------------------------------------------------------------
\* Properties of the chat loop

Last(s) == s[Len(s)]

Positions(s, P(_)) == {i \in 1..Len(s) : P(s[i])}

IsIntent(m) == m.type = "ai"

IsToolMsg(m) == m.type = "tool"

\* capability-execution rounds performed: one intent message per round
Rounds == Cardinality(Positions(langchain_messages, IsIntent))

\* position of the last assistant-intent message (0 when there is none)
LastIntentPos ==
    LET ps == Positions(langchain_messages, IsIntent) IN
      IF ps = {} THEN 0 ELSE CHOOSE p \in ps : \A q \in ps : q <= p

\* the messages appended after the last assistant-intent message
SinceIntent ==
    SubSeq(langchain_messages, LastIntentPos + 1, Len(langchain_messages))

\* the generator stands right before routes.py:209
AtNextInvocation == pc = "tools" /\ idx > Len(current_response.tool_calls)

\* C1: in one chat request the model is invoked at most MAX_AGENT_TURNS + 1
\* times, whatever it answers and however the tools end.
C1_InvocationBound == invocations <= MAX_AGENT_TURNS + 1

C1_Witness == pc = "done" /\ invocations = MAX_AGENT_TURNS + 1

\* C2: when the model is about to be invoked again, the messages after the
\* last assistant-intent message are exactly one result per requested call,
\* carrying the ids of those calls.
C2_OneResultPerCall ==
    AtNextInvocation =>
        /\ Len(SinceIntent) = Len(current_response.tool_calls)
        /\ \A i \in 1..Len(SinceIntent) :
              /\ IsToolMsg(SinceIntent[i])
              /\ SinceIntent[i].tool_call_id = current_response.tool_calls[i].id

\* every response so far asked for a tool and no invocation raised
OnlyToolResponses == ~modelRaised /\ current_response.tool_calls # << >>

C3_Exhausted ==
    (pc = "done" /\ OnlyToolResponses) =>
        /\ Rounds = MAX_AGENT_TURNS
        /\ Last(stream) = MaxStepsNotice

\* a measure of the work the generator has left: the turns the loop guard
\* still admits, then the calls left in the current for-loop
C3_Variant ==
    LET inner == CASE pc = "done"  -> 0
               [] pc = "loop"  -> 1
               [] pc = "start" -> 2
               [] pc = "tools" ->
                    2 + 2 * (Len(current_response.tool_calls) + 1 - idx)
               [] pc = "exec"  ->
                    1 + 2 * (Len(current_response.tool_calls) + 1 - idx)
    IN (MAX_AGENT_TURNS + 1 - turn_count) * (2 * MaxCalls + 4) + inner

\* C3: if every model response requests a tool, the loop performs
\* MAX_AGENT_TURNS rounds and ends the stream with the max-steps notice; the
\* generator cannot loop forever, every step of it lowers a measure that
\* stays non-negative.
C3_MaxTurnsNotice ==
    /\ [](C3_Exhausted /\ C3_Variant >= 0)
    /\ [][C3_Variant' < C3_Variant]_vars

C3_Witness ==
    /\ pc = "done"
    /\ OnlyToolResponses
    /\ Rounds = MAX_AGENT_TURNS
    /\ Last(stream) = MaxStepsNotice

IsFailure(m) == IsToolMsg(m) /\ m.content.kind \in {"timeout", "error"}

\* a step that ends a tool execution appends the result of that call, named
\* after the tool, and goes on with the for-loop
C4_FailureStep ==
    pc = "exec" =>
        LET tool_call == current_response.tool_calls[idx]
            m == Last(langchain_messages') IN
          /\ langchain_messages' = Append(langchain_messages, m)
          /\ IsToolMsg(m)
          /\ m.tool_call_id = tool_call.id
          /\ IsFailure(m) => m.content.tool = tool_call.name
          /\ m.content.kind = "timeout" => m.content.secs = TOOL_TIMEOUT_SECONDS
          /\ pc' = "tools"
          /\ idx' = idx + 1
          /\ Last(stream') # SystemErrorChunk

\* the System Error chunk comes from a failed model invocation only
C4_ErrorOnlyFromModel ==
    (\E i \in 1..Len(stream) : stream[i] = SystemErrorChunk) => modelRaised

\* C4: a tool that times out or raises yields one result for its call-id that
\* names the tool (and the timeout value); the loop goes on and the failure
\* never produces the System Error chunk.
C4_FailureRecovered == [](C4_ErrorOnlyFromModel) /\ [][C4_FailureStep]_vars

\* a timed-out and a raising tool, after which the model was invoked again
\* and answered
C4_Witness ==
    /\ pc = "done"
    /\ Last(stream) = FinalTextChunk
    /\ \E i, j \in 1..Len(langchain_messages) :
          /\ langchain_messages[i].content.kind = "timeout"
          /\ langchain_messages[j].content.kind = "error"

TerminalKinds == {"text", "notice", "error"}

\* C5: a finished stream ends with one terminal chunk (final text, max-steps
\* notice or System Error), no chunk follows a terminal chunk, and a raising
\* model invocation ends the stream with the System Error chunk.
C5_OneTerminalChunk ==
    /\ pc = "done" => (stream # << >> /\ Last(stream).kind \in TerminalKinds)
    /\ \A i \in 1..Len(stream) :
          stream[i].kind \in TerminalKinds => (i = Len(stream) /\ pc = "done")
    /\ modelRaised => (pc = "done" /\ Last(stream) = SystemErrorChunk)

\* the model raised after a tool round
C5_Witness == pc = "done" /\ modelRaised /\ Len(stream) > 1

\* ids of the result messages, in conversation order
ResultIds ==
    LET ts == SelectSeq(langchain_messages, IsToolMsg) IN
      [i \in 1..Len(ts) |-> ts[i].tool_call_id]

RECURSIVE CallIds(_)
CallIds(intents) ==
    IF intents = << >> THEN << >>
    ELSE [k \in 1..Len(Head(intents).tool_calls) |->
             Head(intents).tool_calls[k].id] \o CallIds(Tail(intents))

\* ids of the requested calls, in request order over all turns
RequestedIds == CallIds(SelectSeq(langchain_messages, IsIntent))

\* C6: results are appended in the order of the requests, within a turn and
\* across turns, and the result of a call is in the conversation before the
\* next call starts executing.
C6_ResultOrder ==
    LET res == ResultIds
        asked == RequestedIds
        pos == [i \in 1..Len(res) |->
                   IF \E p \in 1..Len(asked) : asked[p] = res[i]
                   THEN CHOOSE p \in 1..Len(asked) : asked[p] = res[i]
                   ELSE 0]
    IN /\ \A i \in 1..Len(res) : pos[i] > 0
       /\ \A i, j \in 1..Len(res) : i < j => pos[i] < pos[j]
       /\ res = IF pc = "exec" THEN SubSeq(execLog, 1, Len(execLog) - 1)
                ELSE execLog

\* two results of one turn and a result of a later turn
C6_Witness ==
    /\ Len(ResultIds) >= 3
    /\ \E p \in 1..Len(langchain_messages) - 2 :
          /\ IsIntent(langchain_messages[p])
          /\ IsToolMsg(langchain_messages[p + 1])
          /\ IsToolMsg(langchain_messages[p + 2])

NumChunks(kind) == Cardinality({i \in 1..Len(stream) : stream[i].kind = kind})

\* C7: every TOOL_START is directly followed by the TOOL_END of the same
\* name, or is the last chunk while its tool executes; every TOOL_END directly
\* follows its TOOL_START; there is one TOOL_END per appended result.
C7_MarkersPaired ==
    /\ \A i \in 1..Len(stream) :
          stream[i].kind = "TOOL_START" =>
              IF i = Len(stream) THEN pc = "exec"
              ELSE stream[i + 1] = Chunk("TOOL_END", stream[i].name)
    /\ \A i \in 1..Len(stream) :
          stream[i].kind = "TOOL_END" =>
              i > 1 /\ stream[i - 1] = Chunk("TOOL_START", stream[i].name)
    /\ pc = "exec" =>
          Last(stream) = Chunk("TOOL_START",
                               Friendly(current_response.tool_calls[idx].name))
    /\ NumChunks("TOOL_END") = Len(ResultIds)

\* markers of a call that succeeded, one that raised and one that timed out
C7_Witness ==
    /\ pc = "done"
    /\ NumChunks("TOOL_END") >= 3
    /\ \A k \in Outcomes :
          \E i \in 1..Len(langchain_messages) :
              langchain_messages[i].content.kind = k

\* two rounds of one registered tool each, then a plain-text response
ScenarioA ==
    /\ pc = "done"
    /\ ~modelRaised
    /\ invocations = 3
    /\ current_response = TextResponse
    /\ Rounds = 2
    /\ \A i \in 1..Len(langchain_messages) :
          IsIntent(langchain_messages[i]) =>
              /\ Len(langchain_messages[i].tool_calls) = 1
              /\ langchain_messages[i].tool_calls[1].name \in TOOL_MAP

ScenarioA_Outcome ==
    /\ Len(ResultIds) = 2
    /\ ResultIds = RequestedIds
    /\ Last(stream) = FinalTextChunk

\* C8 (as stated): in scenario A both results are appended, the final text
\* ends the stream and turn_count is 2.
C8_TurnCountTwo == ScenarioA => (ScenarioA_Outcome /\ turn_count = 2)

\* C8 (amended): in scenario A both results are appended, the final text ends
\* the stream and turn_count is 3, the text turn being counted as well.
C8_TurnCountThree == ScenarioA => (ScenarioA_Outcome /\ turn_count = 3)

C8_Witness == ScenarioA /\ turn_count = 3

\* the calls requested by the intent message at position p, as a set
CallsAt(p) ==
    {langchain_messages[p].tool_calls[k] :
        k \in 1..Len(langchain_messages[p].tool_calls)}

\* the call has a result message in the conversation
HasResult(c) ==
    \E i \in 1..Len(langchain_messages) :
        /\ IsToolMsg(langchain_messages[i])
        /\ langchain_messages[i].tool_call_id = c.id

\* the handler of the call was started
WasStarted(c) == \E i \in 1..Len(execLog) : execLog[i] = c.id

\* the for-loop passes over a call whose name is not registered: nothing is
\* streamed, appended or run
C25_SkipStep ==
    (/\ pc = "tools"
     /\ idx <= Len(current_response.tool_calls)
     /\ current_response.tool_calls[idx].name \notin TOOL_MAP)
        => /\ stream' = stream
           /\ langchain_messages' = langchain_messages
           /\ execLog' = execLog
           /\ idx' = idx + 1
           /\ pc' = "tools"

\* no unregistered call was ever started or answered, every marker belongs to
\* a started handler, and at the end of the for-loop the registered calls of
\* the turn have their results and the model can be invoked again
C25_SkippedOnly ==
    /\ \A p \in Positions(langchain_messages, IsIntent) :
          \A c \in CallsAt(p) :
              c.name \notin TOOL_MAP => (~HasResult(c) /\ ~WasStarted(c))
    /\ Cardinality(Positions(stream, LAMBDA ch : ch.kind = "TOOL_START"))
          = Len(execLog)
    /\ AtNextInvocation =>
          /\ \A c \in CallsAt(LastIntentPos) :
                c.name \in TOOL_MAP => HasResult(c)
          /\ ENABLED InvokeNext

\* C25: a call whose name is not in TOOL_MAP is silently skipped (no handler,
\* no marker, no result for its id), the other calls of the turn are executed
\* and the model is invoked again.
C25_UnresolvedSkipped == [](C25_SkippedOnly) /\ [][C25_SkipStep]_vars

\* a turn with a registered and an unregistered call, after which the model
\* was invoked again and answered
C25_Witness ==
    /\ pc = "done"
    /\ Last(stream) = FinalTextChunk
    /\ \E p \in Positions(langchain_messages, IsIntent) :
          \E c, d \in CallsAt(p) :
              /\ c.name \notin TOOL_MAP /\ ~HasResult(c)
              /\ d.name \in TOOL_MAP /\ HasResult(d)

\* the final text is in the stream
TextStreamed == \E i \in 1..Len(stream) : stream[i] = FinalTextChunk

----------------------------------------------------------------------------
\* Properties of the race detail cache

\* a step in which client c, whose last call returned, makes its next call
\* for the same key
CallsAgain(c) ==
    /\ req[c].phase = "done"
    /\ req'[c] # req[c]
    /\ req'[c].key = req[c].key

\* the next call returns at once, without a load
ServedFromCache(c) == req'[c].phase = "done" /\ ~req'[c].loaded

LoadsOf(k) == {j \in 1..MaxOps : InFlight(j) /\ jobs[j].key = k}

\* C10: requests for the same uncached key that overlap, from two clients or
\* from a client and the prefetch, have at most one load of the key under way.
C10_SingleFlightPerKey ==
    \A k \in RequestKeys : Cardinality(LoadsOf(k)) <= 1

\* loader threads that are inside a session fetch (get_session + load)
Fetching == {j \in 1..MaxOps : jobs[j].pc = "load"}

\* awaited loads of two keys, where i fetches a session after j's first
\* fetch and before j's next one
Interleaved(i, j) ==
    /\ jobs[i].owned /\ jobs[j].owned
    /\ jobs[i].key # jobs[j].key
    /\ jobs[i].pc = "load"
    /\ jobs[j].pc = "wait" /\ jobs[j].sess > 1

LoadersInFlight == {j \in 1..MaxOps : InFlight(j)}

\* C12: at most one execution of the loader is in flight in the process,
\* whatever the key and whoever started it.
C12_OneLoaderInFlight == Cardinality(LoadersInFlight) <= 1

\* C13: an entry of race_detail_cache, once present, is never removed,
\* replaced or changed by a later request or sweep.
C13_EntryNeverRewritten ==
    [][\A k \in RequestKeys :
          IsCached(k) => race_detail_cache'[k] = race_detail_cache[k]]_vars

\* C14: while round k's race + 3h has not passed, the cache holds nothing for
\* k, and the prefetch has no load of such a round under way.
C14_NothingCachedBeforeBuffer ==
    /\ \A k \in Schedule : ~IsCompleted(k, now) => ~IsCached(k)
    /\ prefetch.pc = "await" => IsCompleted(prefetch.row, prefetch.now_utc)

\* a step in which client c calls get_race_detail for round k
Calls(c, k) ==
    /\ req[c].phase \in {"idle", "done"}
    /\ req'[c] # req[c]
    /\ req'[c].key = k

\* C15: a call for round k made after k's race + 3h, when the cache holds no
\* race results for k, runs the loader for k.
C15_LoadedAfterBuffer ==
    [][\A c \in Clients, k \in Schedule :
          (/\ Calls(c, k)
           /\ IsCompleted(k, now)
           /\ "R" \notin race_detail_cache[k].loaded)
              => req'[c].phase = "await"]_vars

\* the payload carries the minimal identity marker
Marked(payload) == payload.circuit

\* a payload the loader returned (not the timeout or the exception object)
FromLoader(payload) == payload.kind \in {"detail", "error"}

\* the rounds a sweep still has to go through: from row on, completed at the
\* sweep's now_utc t and without a cache entry
Due(row, t) ==
    {k \in Schedule :
        k >= row /\ IsCompleted(k, t) /\ race_detail_cache[k] = NoEntry}

\* the prefetch starts a load or ends its sweep without passing over a round
\* that is due
SweepRetries ==
    LET row == IF prefetch.pc = "sweep" THEN 1 ELSE prefetch.row + 1 IN
      /\ (prefetch.pc # "await" /\ prefetch'.pc = "await") =>
             /\ prefetch'.row \in Due(row, prefetch'.now_utc)
             /\ \A k \in Due(row, prefetch'.now_utc) : prefetch'.row <= k
      /\ (prefetch.pc = "pause" /\ prefetch'.pc = "sweep") =>
             Due(row, prefetch.now_utc) = {}

\* C16: a loader payload without circuit is returned to the caller and is
\* never written to the cache by a request or by the prefetch; the client's
\* next call for the key runs the loader again, and a sweep does not pass
\* over a completed round that has no entry.
C16_UnmarkedNeverCached ==
    [][/\ SweepRetries
       /\ \A k \in RequestKeys :
             race_detail_cache'[k] # NoEntry => Marked(race_detail_cache'[k])
       /\ \A c \in Clients :
             (/\ req[c].phase = "await"
              /\ req'[c].phase = "done"
              /\ FromLoader(req'[c].resp)
              /\ ~Marked(req'[c].resp))
                 => /\ req'[c].resp = jobs[req[c].job].result
                    /\ race_detail_cache' = race_detail_cache
       /\ \A c \in Clients :
             (/\ CallsAgain(c)
              /\ FromLoader(req[c].resp)
              /\ ~Marked(req[c].resp))
                 => req'[c].phase = "await"]_vars

\* a client that got a payload without circuit from the loader a second time
\* for the same key, the cache still without an entry for it
C16_Witness ==
    \E c \in Clients :
        /\ req[c].phase = "done"
        /\ req[c].again /\ req[c].loaded
        /\ FromLoader(req[c].resp)
        /\ ~Marked(req[c].resp)
        /\ ~IsCached(req[c].key)

\* thread j, still awaited, leaves a session fetch
FetchEnds(j) ==
    /\ jobs[j].pc = "load" /\ jobs[j].owned
    /\ jobs'[j].pc # "load" /\ jobs'[j].owned

\* C17: in a loader execution for a concluded round, whether a sub-fetch
\* fails or not, the next sub-fetch is attempted (after the last one the
\* payload is returned), the fields of the other sub-fetches stay as they
\* were, and a returned payload with circuit is stored in the cache.
C17_SubFetchesIndependent ==
    [][/\ \A j \in 1..MaxOps :
             FetchEnds(j) =>
                 LET k == jobs[j].key
                     n == jobs[j].sess
                     s == Sessions(k)[n] IN
                   /\ n < Len(Sessions(k)) =>
                          jobs'[j].pc = "wait" /\ jobs'[j].sess = n + 1
                   /\ n = Len(Sessions(k)) => jobs'[j].pc = "returned"
                   /\ jobs'[j].result.loaded \ {s} = jobs[j].result.loaded \ {s}
                   /\ jobs'[j].result.circuit = jobs[j].result.circuit
       /\ \A c \in Clients :
             (/\ req[c].phase = "await"
              /\ req'[c].phase = "done"
              /\ req'[c].resp.kind = "detail"
              /\ Marked(req'[c].resp))
                 => race_detail_cache'[req[c].key] = req'[c].resp]_vars

\* the sprint weekend's payload is cached with race and sprint fields null
\* and the qualifying and sprint-qualifying fields set
C17_Witness ==
    \E k \in SprintRounds :
        /\ IsCached(k)
        /\ race_detail_cache[k].loaded = {"Q", "SQ"}

\* C18: when a load whose request timed out completes, its payload (for a
\* round with circuit data) is in the cache.
C18_AbandonedLoadCached ==
    [][\A j \in 1..MaxOps :
          (/\ InFlight(j) /\ ~jobs[j].owned
           /\ jobs'[j].pc = "free"
           /\ jobs[j].key \in Schedule
           /\ Marked(Skeleton(jobs[j].key)))
              => race_detail_cache'[jobs[j].key] # NoEntry]_vars

\* C19: a finished request holds a payload, the timeout object or an error
\* object, and a request that awaits a thread can complete at once: by the
\* timeout while the thread runs or waits for the lock, by the thread's
\* outcome once it has ended.
C19_RequestCompletes ==
    \A c \in Clients :
        /\ req[c].phase = "done" =>
               \/ FromLoader(req[c].resp)
               \/ req[c].resp \in {TimeoutObject, ErrorObject}
        /\ req[c].phase = "await" =>
               IF jobs[req[c].job].pc \in {"begin", "wait", "load"}
               THEN ENABLED RequestTimeout(c)
               ELSE ENABLED (RequestReturn(c) \/ RequestError(c))

\* a request has timed out while its thread waits for the lock that another
\* load holds
C19_Witness ==
    \E c \in Clients, j \in 1..MaxOps :
        /\ req[c].phase = "done"
        /\ req[c].resp = TimeoutObject
        /\ jobs[j].pc = "wait" /\ ~jobs[j].owned
        /\ jobs[j].key = req[c].key
        /\ fastf1_lock \notin {0, j}

\* C20: a call for a key that is in the cache returns the entry in the same
\* step, starts no loader thread and leaves the lock alone, whoever holds it.
C20_HitWithoutLock ==
    [][\A c \in Clients, k \in RequestKeys :
          (Calls(c, k) /\ race_detail_cache[k] # NoEntry)
              => /\ req'[c].phase = "done"
                 /\ ~req'[c].loaded
                 /\ req'[c].resp = race_detail_cache[k]
                 /\ jobs' = jobs
                 /\ fastf1_lock' = fastf1_lock]_vars

\* a call was served from the cache while a loader thread holds the lock
C20_Witness ==
    \E c \in Clients :
        /\ req[c].phase = "done"
        /\ ~req[c].loaded
        /\ req[c].resp.kind = "detail"
        /\ fastf1_lock # 0

----------------------------------------------------------------------------
\* Properties of the live timing rooms

\* the handler of the websocket is between its registration and its exit
Running(w) == sockets[w].pc \in {"find", "poll", "sleep", "receive"}

\* the websockets listed under the room
Listed(r) ==
    {live_connections[r].members[i] :
        i \in 1..Len(live_connections[r].members)}

\* the room lists exactly the running handlers of the room, each once
C23_ListedWhileRunning ==
    \A r \in Rooms :
        /\ Listed(r) = {w \in Sockets : Running(w) /\ sockets[w].room = r}
        /\ Len(live_connections[r].members) = Cardinality(Listed(r))
        /\ ~live_connections[r].present => Listed(r) = {}

\* a key once created stays, and the exit of one handler removes no other
\* websocket from any room
C23_RemovalStep ==
    \A r \in Rooms :
        /\ live_connections[r].present => live_connections'[r].present
        /\ \A w \in Sockets :
              (sockets[w].pc # "exited" /\ sockets'[w].pc = "exited") =>
                  Listed(r) \ {w} \subseteq Listed(r)'

\* C23: a room list contains a connection exactly while its handler runs
\* between accept and exit; removing one connection removes no other; a key
\* whose subscribers all left stays in the map with an empty list.
C23_RoomMembership == [](C23_ListedWhileRunning) /\ [][C23_RemovalStep]_vars

\* one subscriber of a room left while another is still listed there, and
\* the other room is present with an empty list after its subscriber left
C23_Witness ==
    \E r, q \in Rooms : \E w, x, y \in Sockets :
        /\ r # q
        /\ sockets[w].pc = "exited" /\ sockets[w].room = r
        /\ sockets[w].ended = "receive"
        /\ live_connections[r].members = <<x>> /\ x # w
        /\ sockets[y].pc = "exited" /\ sockets[y].room = q
        /\ live_connections[q] = [present |-> TRUE, members |-> << >>]

\* no handler was ever left because of a poll
C24_PollNeverEnds ==
    \A w \in Sockets :
        /\ sockets[w].ended # "poll"
        /\ sockets[w].pc = "sleep" => ENABLED Sleep(w)
        /\ sockets[w].pc = "receive" => ENABLED Receive(w)

\* a poll without positions goes to the sleep with the websocket still
\* registered, the sleep to the bounded receive, the receive to the next poll
\* unless the client is gone
C24_LoopStep ==
    \A w \in Sockets :
        /\ (sockets[w].pc = "poll" /\ sockets'[w] # sockets[w]
                /\ sockets'[w].cycle = "skipped" /\ sockets'[w].pc = "sleep") =>
              /\ live_connections' = live_connections
              /\ w \in Listed(sockets[w].room)'
        /\ (sockets[w].pc = "poll" /\ sockets'[w].pc = "exited") =>
              sockets'[w].ended = "send"
        /\ (sockets[w].pc = "sleep" /\ sockets'[w] # sockets[w]) =>
              sockets'[w].pc = "receive"
        /\ (sockets[w].pc = "receive" /\ sockets'[w] # sockets[w]) =>
              \/ sockets'[w].pc = "poll"
              \/ sockets'[w].pc = "exited" /\ sockets'[w].ended = "receive"

\* C24: a failed poll of the live positions only skips the push of that
\* cycle: the connection stays open and registered and the loop goes on with
\* the sleep, the bounded receive and the next poll.
C24_FailedPollSkipsCycle == [](C24_PollNeverEnds) /\ [][C24_LoopStep]_vars

\* a handler is at its next poll after a cycle whose poll failed, still
\* registered
C24_Witness ==
    \E w \in Sockets :
        /\ sockets[w].pc = "poll"
        /\ sockets[w].session_key
        /\ sockets[w].cycle = "skipped"
        /\ w \in Listed(sockets[w].room)

----------------------------------------------------------------------------
\* Properties of the background prefetch

\* C21 as stated: a sweep that ends with no event concluded since it read
\* now_utc leaves nothing for the following pass to load.
C21_SecondPassLoadsNothing ==
    [][(prefetch.pc = "pause" /\ prefetch'.pc = "sweep"
            /\ now = prefetch.now_utc)
          => Due(1, now)' = {}]_vars

\* C21: a pass starts no load when every round concluded at its start has a
\* cache entry; a pass that does start a load starts it for the first
\* concluded round without an entry, cached rounds are never loaded again.
C21_NoLoadWhenAllCached ==
    [][/\ (prefetch.pc = "sweep" /\ Due(1, now) = {}) =>
              (prefetch' = prefetch /\ ops' = ops)
       /\ (prefetch.pc = "sweep" /\ prefetch'.pc = "await") =>
              /\ race_detail_cache[prefetch'.row] = NoEntry
              /\ jobs'[prefetch'.job].key = prefetch'.row]_vars

\* a pass begins after an earlier pass loaded and cached the only concluded
\* round
C21_Witness ==
    /\ prefetch.pc = "sweep"
    /\ now = 1
    /\ ops = 1
    /\ race_detail_cache[1] # NoEntry
    /\ Due(1, now) = {}

\* the await of a load ends in the pause of the same sweep, whatever the
\* outcome; a timeout or an error writes nothing to the cache
AwaitEnds ==
    (prefetch.pc = "await" /\ prefetch' # prefetch) =>
        /\ prefetch'.pc = "pause"
        /\ prefetch'.row = prefetch.row
        /\ prefetch'.now_utc = prefetch.now_utc
        /\ jobs[prefetch.job].pc # "returned" =>
              race_detail_cache' = race_detail_cache

\* C22: a round whose load times out or raises does not stop the sweep; the
\* sweep goes on to every later round that is due, and the failed round,
\* left without an entry, is due again in the next sweep.
C22_FailedRoundDoesNotStopSweep == [][AwaitEnds /\ SweepRetries]_vars

\* the load of round 1 timed out and the same sweep is loading round 2
C22_Witness ==
    /\ prefetch.pc = "await"
    /\ prefetch.row = 2
    /\ race_detail_cache[1] = NoEntry
    /\ \E j \in 1..MaxOps :
          jobs[j].key = 1 /\ ~jobs[j].owned /\ jobs[j].pc # "free"

\* C27: no two loader executions started by the prefetch are in flight
\* together, also after a timeout.
C27_OnePrefetchLoadAtATime ==
    \A i, j \in 1..MaxOps :
        (jobs[i].pc \in {"begin", "wait", "load"}
            /\ jobs[j].pc \in {"begin", "wait", "load"}) => i = j

\* the scheduler is always at one of the three awaits of its loop
SchedulerAlive == prefetch.pc \in {"sweep", "await", "pause"}

\* C28: the scheduler never ends: whatever a load does, the sweep in progress
\* comes to its end and the scheduler is back at the top of its loop, again
\* and again (as long as the model lets it start a load).
C28_SweepsForever ==
    /\ [](SchedulerAlive)
    /\ []<>(prefetch.pc = "sweep" \/ ~CanSpawn)
    /\ (prefetch.pc = "await") ~> (prefetch.pc # "await")

\* the first load of round 1 ended without leaving an entry and a later
\* sweep is loading round 1 again
C28_Witness ==
    /\ prefetch.pc = "await"
    /\ prefetch.row = 1
    /\ ops = 2
    /\ jobs[1].pc = "free"
    /\ race_detail_cache[1] = NoEntry

\* the lock is held exactly while a session load executes, by the thread
\* that executes it; a holder can leave and a waiter can enter a free lock
LockHeldWhileLoading ==
    /\ fastf1_lock = 0 <=> (\A j \in 1..MaxOps : jobs[j].pc # "load")
    /\ \A j \in 1..MaxOps : jobs[j].pc = "load" <=> fastf1_lock = j
    /\ \A j \in 1..MaxOps :
          /\ jobs[j].pc = "load" => ENABLED SessionFinish(j)
          /\ (jobs[j].pc = "wait" /\ fastf1_lock = 0) =>
                ENABLED SessionAcquire(j)

\* C30: the loader lock does not leak or deadlock: it is free whenever no
\* session load executes, no thread waits for it while holding it, and a
\* waiting load eventually acquires it.
C30_LockNeverLeaks ==
    /\ [](LockHeldWhileLoading)
    /\ \A j \in 1..MaxOps : (jobs[j].pc = "wait") ~> (jobs[j].pc = "load")

\* a thread waits for the lock while another thread's session load, which
\* follows a failed one, holds it
C30_Witness ==
    \E i, j \in 1..MaxOps :
        /\ jobs[i].pc = "load" /\ fastf1_lock = i
        /\ jobs[i].sess > 1
        /\ jobs[j].pc = "wait"

----------------------------------------------------------------------------
\* Properties of the FastF1 session loads of the whole process

\* the session loads that execute: those of the loader threads and those of
\* the capability handlers
LoadsExecuting ==
    Cardinality({j \in 1..MaxOps : jobs[j].pc = "load"})
        + Cardinality({h \in Handlers : workers[h].pc = "load"})

\* C26: at most one FastF1 session load executes in the process at any
\* instant, whichever component started it.
C26_OneSessionLoadInProcess == LoadsExecuting <= 1

====
